---- MODULE Spec2Model ----
(***************************************************************************)
(* avsplit: split one audio recording into tagged track files, following a *)
(* list of "HH:MM:SS Title" lines (src/main.go).                            *)
(*                                                                         *)
(* Text is modelled as a sequence of pieces.  Text the program inspects is *)
(* kept one character per piece (<<"0","0",":",...>>); fixed literals the  *)
(* program only passes on ("-nostdin", "--artist=\"") are one piece.        *)
(***************************************************************************)
EXTENDS Integers, Sequences, FiniteSets, TLC

VARIABLES
    audioFile,   \* run() parameter: path of the source audio file
    artist,      \* run() parameter
    album,       \* run() parameter
    fileLines,   \* the lines bufio.Scanner yields for the timecodes file
    pc,          \* position of run()
    err,         \* the error run() returned ("" while running / on success)
    pos,         \* number of lines the scanner has handed out
    timecodes,   \* var timecodes [][]string
    tracks,      \* var tracks []track
    i,           \* index of the segmenting loop (for i := range timecodes)
    cur,         \* 1-based index of the track loop (for _, t := range tracks)
    printed,     \* number of "processing track" lines written
    effects      \* side effects so far, in order: MkdirAll and child processes

vars == <<audioFile, artist, album, fileLines, pc, err, pos, timecodes,
          tracks, i, cur, printed, effects>>

----------------------------------------------------------------------------
(* Bounds of the model *)

\* longest timecodes file built from CoreLines
MaxLines == 3

\* program constants
MaxTracks == 999
TwoDigitMax == 99

----------------------------------------------------------------------------
(* Characters and text helpers *)

DigitChars == <<"0", "1", "2", "3", "4", "5", "6", "7", "8", "9">>

DigitSet == {DigitChars[k] : k \in 1..10}

DigitVal(c) == (CHOOSE k \in 1..10 : DigitChars[k] = c) - 1

RECURSIVE IndexFrom(_, _, _)
IndexFrom(s, c, k) ==
    IF k > Len(s) THEN 0
    ELSE IF s[k] = c THEN k
    ELSE IndexFrom(s, c, k + 1)

\* strings.Index(s, c) + 1, and 0 when c does not occur
Index(s, c) == IndexFrom(s, c, 1)

DropFirst(s, n) == SubSeq(s, n + 1, Len(s))

\* strings.SplitAfterN(s, " ", 2)
SplitAfterN(s) ==
    LET k == Index(s, " ")
    IN  IF k = 0 THEN <<s>> ELSE <<SubSeq(s, 1, k), DropFirst(s, k)>>

RECURSIVE TrimLeft(_)
TrimLeft(s) ==
    IF s # <<>> /\ Head(s) = " " THEN TrimLeft(Tail(s)) ELSE s

RECURSIVE TrimRight(_)
TrimRight(s) ==
    IF s # <<>> /\ s[Len(s)] = " " THEN TrimRight(SubSeq(s, 1, Len(s) - 1)) ELSE s

\* strings.Trim(s, " ")
Trim(s) == TrimRight(TrimLeft(s))

----------------------------------------------------------------------------
(* time.Parse("15:04:05", v) *)

IsDigit(s, k) == k <= Len(s) /\ s[k] \in DigitSet

\* time.getnum: one or two digits, exactly two when fixed
getnum(s, fixed) ==
    IF ~IsDigit(s, 1) THEN [ok |-> FALSE, n |-> 0, rest |-> s]
    ELSE IF ~IsDigit(s, 2)
         THEN IF fixed THEN [ok |-> FALSE, n |-> 0, rest |-> s]
              ELSE [ok |-> TRUE, n |-> DigitVal(s[1]), rest |-> Tail(s)]
         ELSE [ok |-> TRUE, n |-> 10 * DigitVal(s[1]) + DigitVal(s[2]),
               rest |-> DropFirst(s, 2)]

RECURSIVE SkipDigits(_)
SkipDigits(s) ==
    IF IsDigit(s, 1) THEN SkipDigits(Tail(s)) ELSE s

\* the fractional second time.Parse accepts after the seconds field even
\* though the layout has none
SkipFraction(s) ==
    IF Len(s) >= 2 /\ s[1] = "." /\ IsDigit(s, 2)
    THEN SkipDigits(DropFirst(s, 2))
    ELSE s

\* the literal ":" of the layout
SkipColon(s) ==
    IF s # <<>> /\ Head(s) = ":" THEN [ok |-> TRUE, rest |-> Tail(s)]
    ELSE [ok |-> FALSE, rest |-> s]

\* err == nil of time.Parse("15:04:05", v)
TimeParseOK(v) ==
    LET h  == getnum(v, FALSE)
        c1 == SkipColon(h.rest)
        m  == getnum(c1.rest, TRUE)
        c2 == SkipColon(m.rest)
        s  == getnum(c2.rest, TRUE)
    IN  /\ h.ok /\ h.n < 24
        /\ c1.ok
        /\ m.ok /\ m.n < 60
        /\ c2.ok
        /\ s.ok /\ s.n < 60
        /\ SkipFraction(s.rest) = <<>>

\* parseTime(t) == nil
parseTime(t) == TimeParseOK(Trim(t))

----------------------------------------------------------------------------
(* fmt, path and path/filepath *)

RECURSIVE Itoa(_)
Itoa(n) ==
    IF n < 10 THEN <<DigitChars[n + 1]>>
    ELSE Itoa(n \div 10) \o <<DigitChars[(n % 10) + 1]>>

RECURSIVE Zeros(_)
Zeros(n) == IF n <= 0 THEN <<>> ELSE <<"0">> \o Zeros(n - 1)

\* fmt.Sprintf("%0<w>d", n) for n >= 0
PadInt(n, w) == Zeros(w - Len(Itoa(n))) \o Itoa(n)

RECURSIVE ExtFrom(_, _)
ExtFrom(p, k) ==
    IF k < 1 \/ p[k] = "/" THEN <<>>
    ELSE IF p[k] = "." THEN SubSeq(p, k, Len(p))
    ELSE ExtFrom(p, k - 1)

\* filepath.Ext(p)
Ext(p) == ExtFrom(p, Len(p))

RECURSIVE SplitSlash(_)
SplitSlash(s) ==
    LET k == Index(s, "/")
    IN  IF k = 0 THEN <<s>>
        ELSE <<SubSeq(s, 1, k - 1)>> \o SplitSlash(DropFirst(s, k))

RECURSIVE JoinSlash(_)
JoinSlash(comps) ==
    IF comps = <<>> THEN <<>>
    ELSE IF Len(comps) = 1 THEN comps[1]
    ELSE comps[1] \o <<"/">> \o JoinSlash(Tail(comps))

DotDot == <<".", ".">>

RECURSIVE CleanComps(_, _, _)
CleanComps(comps, stack, rooted) ==
    IF comps = <<>> THEN stack
    ELSE LET c == Head(comps)
             rest == Tail(comps)
         IN  IF c = <<>> \/ c = <<".">> THEN CleanComps(rest, stack, rooted)
             ELSE IF c = DotDot
                  THEN IF stack # <<>> /\ stack[Len(stack)] # DotDot
                       THEN CleanComps(rest, SubSeq(stack, 1, Len(stack) - 1), rooted)
                       ELSE IF rooted THEN CleanComps(rest, stack, rooted)
                       ELSE CleanComps(rest, Append(stack, c), rooted)
                  ELSE CleanComps(rest, Append(stack, c), rooted)

\* path.Clean(p)
Clean(p) ==
    IF p = <<>> THEN <<".">>
    ELSE LET rooted == Head(p) = "/"
             out == (IF rooted THEN <<"/">> ELSE <<>>)
                    \o JoinSlash(CleanComps(SplitSlash(p), <<>>, rooted))
         IN  IF out = <<>> THEN <<".">> ELSE out

\* path.Join(elems...): empty elements are ignored, the result is cleaned
Join(elems) ==
    LET kept == SelectSeq(elems, LAMBDA e : e # <<>>)
    IN  IF kept = <<>> THEN <<>> ELSE Clean(JoinSlash(kept))

----------------------------------------------------------------------------
(* type track and its methods *)

NoEnd == <<>>

\* track.outputFilename(audioFile)
outputFilename(t, af) ==
    LET width == IF t.Total > TwoDigitMax THEN 3 ELSE 2
        v == PadInt(t.Number, width) \o <<" ", "-", " ">> \o t.Title \o Ext(af)
    IN  Join(<<t.Artist, t.Album, v>>)

\* ffmpegArgs without the test for the last track
ffmpegArgsAlwaysTo(t, af) ==
    <<  <<"-nostdin">>, <<"-y">>, <<"-loglevel">>, <<"error">>,
        <<"-ss">>, t.Start, <<"-to">>, t.End,
        <<"-i">>, af, <<"-vn">>, <<"-c">>, <<"copy">>, <<"-f">>, <<"mp3">>,
        outputFilename(t, af)  >>

\* track.ffmpegArgs(audioFile)
ffmpegArgs(t, af) ==
    <<  <<"-nostdin">>, <<"-y">>, <<"-loglevel">>, <<"error">>  >>
    \o (IF t.End = NoEnd
        THEN <<  <<"-ss">>, t.Start  >>
        ELSE <<  <<"-ss">>, t.Start, <<"-to">>, t.End  >>)
    \o <<  <<"-i">>, af, <<"-vn">>, <<"-c">>, <<"copy">>, <<"-f">>, <<"mp3">>,
           outputFilename(t, af)  >>

\* track.eyeD3Args(audioFile)
eyeD3Args(t, af) ==
    <<  <<"--artist=\"">> \o t.Artist \o <<"\"">>,
        <<"--album-artist=\"">> \o t.Artist \o <<"\"">>,
        <<"--album=\"">> \o t.Album \o <<"\"">>,
        <<"--title=\"">> \o t.Title \o <<"\"">>,
        <<"--track=">> \o Itoa(t.Number),
        <<"--track-total=">> \o Itoa(t.Total),
        outputFilename(t, af)  >>

\* the outcomes of execCommand: nil, the error of cmd.Start, or the child's
\* stderr after a failing cmd.Wait
ExecOutcomes == {"ok", "startFailed", "exitNonZero"}

\* the error execCommand returns for an outcome
execError(outcome) ==
    CASE outcome = "ok" -> ""
      [] outcome = "startFailed" -> "exec: cannot start"
      [] OTHER -> "child stderr"

----------------------------------------------------------------------------
(* the bodies of the loops of run() *)

\* ScanBody without the test for a blank line
ScanBodyNoBlankSkip(line, tcs) ==
    LET tc == SplitAfterN(line)
    IN  IF Len(tc) < 2
        THEN [err |-> "invalid format", timecodes |-> tcs]
        ELSE IF ~parseTime(tc[1])
        THEN [err |-> "invalid timecode", timecodes |-> tcs]
        ELSE [err |-> "",
              timecodes |-> Append(tcs, <<Trim(tc[1]), Trim(tc[2])>>)]

\* one iteration of the scanning loop on a line: the error it returns ("" for
\* none) and the timecodes after it
ScanBody(line, tcs) ==
    IF line = <<>> THEN [err |-> "", timecodes |-> tcs]
    ELSE LET tc == SplitAfterN(line)
         IN  IF Len(tc) < 2
             THEN [err |-> "invalid format", timecodes |-> tcs]
             ELSE IF ~parseTime(tc[1])
             THEN [err |-> "invalid timecode", timecodes |-> tcs]
             ELSE [err |-> "",
                   timecodes |-> Append(tcs, <<Trim(tc[1]), Trim(tc[2])>>)]

\* CountError without the test for an empty list
CountErrorNoEmptyTest(tcs) ==
    IF Len(tcs) > MaxTracks THEN "too many tracks" ELSE ""

\* the checks on len(timecodes) after the scanning loop
CountError(tcs) ==
    IF Len(tcs) = 0 THEN "no timecodes found"
    ELSE IF Len(tcs) > MaxTracks THEN "too many tracks"
    ELSE ""

\* SegmentBody without the i == 1 case that closes the first track
SegmentBodyNoFirstEnd(ts, tcs, k, art, alb) ==
    LET t  == [Number |-> k + 1,
               Title  |-> tcs[k + 1][2],
               Start  |-> tcs[k + 1][1],
               Artist |-> art,
               Album  |-> alb,
               Total  |-> Len(tcs),
               End    |-> <<>>]
        t1 == Append(ts, t)
    IN  IF k > 0 /\ k < Len(tcs) - 1
        THEN [t1 EXCEPT ![k + 1].End = tcs[k + 2][1]]
        ELSE t1

\* SegmentBody with Total counting the tracks built so far
SegmentBodyRunningTotal(ts, tcs, k, art, alb) ==
    LET t  == [Number |-> k + 1,
               Title  |-> tcs[k + 1][2],
               Start  |-> tcs[k + 1][1],
               Artist |-> art,
               Album  |-> alb,
               Total  |-> Len(ts) + 1,
               End    |-> <<>>]
        t1 == Append(ts, t)
        t2 == IF k = 1 THEN [t1 EXCEPT ![k].End = tcs[k + 1][1]] ELSE t1
    IN  IF k > 0 /\ k < Len(tcs) - 1
        THEN [t2 EXCEPT ![k + 1].End = tcs[k + 2][1]]
        ELSE t2

\* iteration k (0-based, the code's i) of the segmenting loop
SegmentBody(ts, tcs, k, art, alb) ==
    LET t  == [Number |-> k + 1,
               Title  |-> tcs[k + 1][2],
               Start  |-> tcs[k + 1][1],
               Artist |-> art,
               Album  |-> alb,
               Total  |-> Len(tcs),
               End    |-> NoEnd]
        t1 == Append(ts, t)
        t2 == IF k = 1 THEN [t1 EXCEPT ![k].End = tcs[k + 1][1]] ELSE t1
    IN  IF k > 0 /\ k < Len(tcs) - 1
        THEN [t2 EXCEPT ![k + 1].End = tcs[k + 2][1]]
        ELSE t2

----------------------------------------------------------------------------
(* Inputs *)

TIME_000000 == <<"0", "0", ":", "0", "0", ":", "0", "0">>
TIME_000315 == <<"0", "0", ":", "0", "3", ":", "1", "5">>
TIME_000500 == <<"0", "0", ":", "0", "5", ":", "0", "0">>
TIME_235959 == <<"2", "3", ":", "5", "9", ":", "5", "9">>
TIME_240000 == <<"2", "4", ":", "0", "0", ":", "0", "0">>
TIME_006000 == <<"0", "0", ":", "6", "0", ":", "0", "0">>
TIME_000060 == <<"0", "0", ":", "0", "0", ":", "6", "0">>
TIME_10203  == <<"1", ":", "0", "2", ":", "0", "3">>
TIME_000    == <<"0", ":", "0", ":", "0">>
TIME_FRAC   == <<"0", "0", ":", "0", "0", ":", "0", "0", ".", "5">>
TIME_LONG   == <<"0", "0", ":", "0", "0", ":", "0", "0", "0">>
BADTIME     == <<"b", "a", "d", "t", "i", "m", "e">>
INTRO       == <<"I", "n", "t", "r", "o">>
TRACK_TWO   == <<"T", "r", "a", "c", "k", " ", "T", "w", "o">>

\* the lines the multi-line files are built from
CoreLines ==
    { <<>>,
      TIME_000000 \o <<" ">> \o INTRO,
      TIME_000315 \o <<" ">> \o TRACK_TWO,
      TIME_000000,
      BADTIME \o <<" ">> \o INTRO,
      TIME_000500 \o <<" ">> }

CoreFiles == UNION {[1..n -> CoreLines] : n \in 0..MaxLines}

TimeTokens ==
    { TIME_000000, TIME_000315, TIME_235959, TIME_240000, TIME_006000,
      TIME_000060, TIME_10203, TIME_000, TIME_FRAC, TIME_LONG, BADTIME, <<>> }

Separators ==
    { <<>>, <<" ">>, <<" ", " ">>, <<"\t">>, <<"\t", " ">>, <<" ", "\t">> }

Titles ==
    { <<>>, INTRO, TRACK_TWO, <<"a", "/", "b">>, <<"a", "/", ".", ".", "/", "b">>,
      <<"x", " ">>, <<"x", "\t">> }

\* one-line files: every time token, separator and title
LineFiles ==
    { << tok \o sep \o title >> : tok \in TimeTokens, sep \in Separators,
                                  title \in Titles }

\* line k (0-based) of a long file: the time k seconds in, and a title
LongLine(k) ==
    PadInt(k \div 3600, 2) \o <<":">> \o PadInt((k \div 60) % 60, 2) \o <<":">>
    \o PadInt(k % 60, 2) \o <<" ", "T">>

LongLens == {TwoDigitMax, TwoDigitMax + 1, MaxTracks, MaxTracks + 1}

LongFiles == { [k \in 1..n |-> LongLine(k - 1)] : n \in LongLens }

SONG_FLAC == <<"s", "o", "n", "g", ".", "f", "l", "a", "c">>
SONG_MP3  == <<"s", "o", "n", "g", ".", "m", "p", "3">>

DefaultConfig == [audioFile |-> SONG_FLAC, artist |-> <<"A">>, album |-> <<"B">>]

Configs ==
    { DefaultConfig,
      [audioFile |-> SONG_MP3, artist |-> <<"A">>, album |-> <<"B">>],
      [audioFile |-> <<"d", ".", "x", "/", "s", "o", "n", "g">>,
       artist |-> <<"A">>, album |-> <<"B">>],
      [audioFile |-> SONG_MP3, artist |-> <<"A">>, album |-> <<"a", "/", "b">>],
      [audioFile |-> SONG_MP3, artist |-> <<".", ".">>, album |-> <<"B">>],
      [audioFile |-> SONG_MP3, artist |-> <<"A">>, album |-> <<".", ".">>] }

Inputs ==
    {[file |-> f, cfg |-> c] : f \in CoreFiles, c \in Configs}
    \cup {[file |-> f, cfg |-> DefaultConfig] : f \in LineFiles \cup LongFiles}

----------------------------------------------------------------------------
(* run() *)

Init ==
    /\ \E in \in Inputs :
          /\ fileLines = in.file
          /\ audioFile = in.cfg.audioFile
          /\ artist = in.cfg.artist
          /\ album = in.cfg.album
    /\ pc = "statAudio"
    /\ err = ""
    /\ pos = 0
    /\ timecodes = <<>>
    /\ tracks = <<>>
    /\ i = 0
    /\ cur = 0
    /\ printed = 0
    /\ effects = <<>>

Fail(e) == pc' = "failed" /\ err' = e

\* os.Stat(audioFile)
StatAudio ==
    /\ pc = "statAudio"
    /\ \E ok \in BOOLEAN :
          IF ok THEN pc' = "statTimecodes" /\ err' = err
          ELSE Fail("audio file not found")
    /\ UNCHANGED <<audioFile, artist, album, fileLines, pos, timecodes, tracks,
                   i, cur, printed, effects>>

\* os.Stat(timecodesFile)
StatTimecodes ==
    /\ pc = "statTimecodes"
    /\ \E ok \in BOOLEAN :
          IF ok THEN pc' = "open" /\ err' = err
          ELSE Fail("timecodes file not found")
    /\ UNCHANGED <<audioFile, artist, album, fileLines, pos, timecodes, tracks,
                   i, cur, printed, effects>>

\* os.Open(timecodesFile)
OpenTimecodes ==
    /\ pc = "open"
    /\ \E ok \in BOOLEAN :
          IF ok THEN pc' = "scan" /\ err' = err
          ELSE Fail("cannot read timecodes file")
    /\ UNCHANGED <<audioFile, artist, album, fileLines, pos, timecodes, tracks,
                   i, cur, printed, effects>>

\* one iteration of for s.Scan() { ... }
ScanLine ==
    /\ pc = "scan"
    /\ pos < Len(fileLines)
    /\ LET r == ScanBody(fileLines[pos + 1], timecodes)
       IN  /\ pos' = pos + 1
           /\ timecodes' = r.timecodes
           /\ IF r.err = "" THEN pc' = pc /\ err' = err ELSE Fail(r.err)
    /\ UNCHANGED <<audioFile, artist, album, fileLines, tracks, i, cur,
                   printed, effects>>

\* s.Scan() returns false: the checks on len(timecodes)
CheckCount ==
    /\ pc = "scan"
    /\ pos = Len(fileLines)
    /\ IF CountError(timecodes) = ""
       THEN pc' = "segment" /\ err' = err
       ELSE Fail(CountError(timecodes))
    /\ i' = 0
    /\ UNCHANGED <<audioFile, artist, album, fileLines, pos, timecodes, tracks,
                   cur, printed, effects>>

\* one iteration of for i := range timecodes { ... }
SegmentStep ==
    /\ pc = "segment"
    /\ i < Len(timecodes)
    /\ tracks' = SegmentBody(tracks, timecodes, i, artist, album)
    /\ i' = i + 1
    /\ UNCHANGED <<audioFile, artist, album, fileLines, pc, err, pos, timecodes,
                   cur, printed, effects>>

\* os.MkdirAll(path.Join(artist, album), 0700), then the track loop begins
Mkdir ==
    /\ pc = "segment"
    /\ i = Len(timecodes)
    /\ \E ok \in BOOLEAN :
          /\ effects' = Append(effects,
                [cmd |-> "mkdir", args |-> <<Join(<<artist, album>>)>>,
                 outcome |-> IF ok THEN "ok" ELSE "failed"])
          /\ IF ok
             THEN /\ pc' = IF tracks = <<>> THEN "done" ELSE "cut"
                  /\ err' = err
             ELSE Fail("mkdir failed")
    /\ cur' = 1
    /\ UNCHANGED <<audioFile, artist, album, fileLines, pos, timecodes, tracks,
                   i, printed>>

\* Cut going on to the tag step whatever execCommand returned
CutNoAbort ==
    /\ pc = "cut"
    /\ printed' = printed + 1
    /\ \E outcome \in ExecOutcomes :
          effects' = Append(effects,
                [cmd |-> "ffmpeg", args |-> ffmpegArgs(tracks[cur], audioFile),
                 outcome |-> outcome])
    /\ pc' = "tag"
    /\ UNCHANGED <<audioFile, artist, album, fileLines, err, pos, timecodes,
                   tracks, i, cur>>

\* the progress line and execCommand("ffmpeg", t.ffmpegArgs(audioFile)...)
Cut ==
    /\ pc = "cut"
    /\ printed' = printed + 1
    /\ \E outcome \in ExecOutcomes :
          /\ effects' = Append(effects,
                [cmd |-> "ffmpeg", args |-> ffmpegArgs(tracks[cur], audioFile),
                 outcome |-> outcome])
          /\ IF outcome = "ok" THEN pc' = "tag" /\ err' = err
             ELSE Fail(execError(outcome))
    /\ UNCHANGED <<audioFile, artist, album, fileLines, pos, timecodes, tracks,
                   i, cur>>

\* execCommand("eyed3", t.eyeD3Args(audioFile)...), then the next track
Tag ==
    /\ pc = "tag"
    /\ \E outcome \in ExecOutcomes :
          /\ effects' = Append(effects,
                [cmd |-> "eyed3", args |-> eyeD3Args(tracks[cur], audioFile),
                 outcome |-> outcome])
          /\ IF outcome = "ok"
             THEN /\ pc' = IF cur = Len(tracks) THEN "done" ELSE "cut"
                  /\ cur' = cur + 1
                  /\ err' = err
             ELSE Fail(execError(outcome)) /\ cur' = cur
    /\ UNCHANGED <<audioFile, artist, album, fileLines, pos, timecodes, tracks,
                   i, printed>>

Next ==
    \/ StatAudio
    \/ StatTimecodes
    \/ OpenTimecodes
    \/ ScanLine
    \/ CheckCount
    \/ SegmentStep
    \/ Mkdir
    \/ Cut
    \/ Tag

Spec == Init /\ [][Next]_vars

----------------------------------------------------------------------------
(* Vocabulary of the properties *)

Last(s) == s[Len(s)]

IsPrefix(s, t) == Len(s) <= Len(t) /\ SubSeq(t, 1, Len(s)) = s

HasArg(args, a) == \E k \in 1..Len(args) : args[k] = a

\* a appears in args and is directly followed by v
ArgFollowedBy(args, a, v) ==
    \E k \in 1..(Len(args) - 1) : args[k] = a /\ args[k + 1] = v

\* the segmenting loop has run to its end
SegmentDone == effects # <<>> \/ (pc = "segment" /\ i = Len(timecodes))

\* the number of non-blank lines among the first k lines of the file
NonBlankCount(k) == Cardinality({j \in 1..k : fileLines[j] # <<>>})

ValidationErrors ==
    { "audio file not found", "timecodes file not found",
      "cannot read timecodes file", "invalid format", "invalid timecode",
      "no timecodes found", "too many tracks" }

\* the padded number, " - ", the title and the source file's extension
TrackFileName(t) ==
    (IF t.Total <= 99 THEN PadInt(t.Number, 2) ELSE PadInt(t.Number, 3))
    \o <<" ", "-", " ">> \o t.Title \o Ext(audioFile)

RECURSIVE LastSlashFrom(_, _)
LastSlashFrom(p, k) ==
    IF k < 1 THEN 0 ELSE IF p[k] = "/" THEN k ELSE LastSlashFrom(p, k - 1)

\* the directory a path lies in, and its file name
DirOf(p) == SubSeq(p, 1, LastSlashFrom(p, Len(p)) - 1)
BaseOf(p) == DropFirst(p, LastSlashFrom(p, Len(p)))

Whitespace == {" ", "\t"}

RECURSIVE FirstWhitespace(_, _)
FirstWhitespace(s, k) ==
    IF k > Len(s) THEN 0
    ELSE IF s[k] \in Whitespace THEN k
    ELSE FirstWhitespace(s, k + 1)

RECURSIVE TrimWhitespace(_)
TrimWhitespace(s) ==
    IF s # <<>> /\ Head(s) \in Whitespace THEN TrimWhitespace(Tail(s))
    ELSE IF s # <<>> /\ Last(s) \in Whitespace
         THEN TrimWhitespace(SubSeq(s, 1, Len(s) - 1))
    ELSE s

\* HH:MM:SS: two digits each, a 24-hour time of day
IsHHMMSS(s) ==
    /\ Len(s) = 8
    /\ \A k \in {1, 2, 4, 5, 7, 8} : s[k] \in DigitSet
    /\ s[3] = ":" /\ s[6] = ":"
    /\ 10 * DigitVal(s[1]) + DigitVal(s[2]) <= 23
    /\ 10 * DigitVal(s[4]) + DigitVal(s[5]) <= 59
    /\ 10 * DigitVal(s[7]) + DigitVal(s[8]) <= 59

\* a line split at its first run of whitespace
LineClass(line) ==
    LET k == FirstWhitespace(line, 1)
    IN  IF k = 0 THEN [kind |-> "invalid format", pair |-> <<>>]
        ELSE IF ~IsHHMMSS(SubSeq(line, 1, k - 1))
        THEN [kind |-> "invalid timecode", pair |-> <<>>]
        ELSE [kind |-> "accepted",
              pair |-> <<SubSeq(line, 1, k - 1), TrimWhitespace(DropFirst(line, k))>>]

\* the scanning loop has just handled line fileLines[pos]
JustScanned ==
    /\ pos >= 1
    /\ \/ pc = "scan"
       \/ pc = "failed" /\ err \in {"invalid format", "invalid timecode"}

\* the container format the extension of a path names
FormatOfExt(e) ==
    IF e = <<".", "m", "p", "3">> THEN <<"mp3">>
    ELSE IF e = <<".", "f", "l", "a", "c">> THEN <<"flac">>
    ELSE <<"unknown">>

----------------------------------------------------------------------------
(* Properties *)

\* C1: once the tracks are built, for every track but the last, End is present
\* and equals the Start of the next track, which is the time of the next pair;
\* the End of the last track is absent (also when there is one track only).
Thm_C1_Contiguous ==
    SegmentDone =>
        LET n == Len(timecodes)
        IN  /\ Len(tracks) = n
            /\ n >= 1
            /\ \A k \in 1..(n - 1) :
                  /\ tracks[k].End # NoEnd
                  /\ tracks[k].End = tracks[k + 1].Start
                  /\ tracks[k].End = timecodes[k + 1][1]
            /\ tracks[n].End = NoEnd

Wit_C1_ThreeTracks ==
    /\ pc = "done"
    /\ Len(tracks) = 3
    /\ tracks[1].End = TIME_000315
    /\ tracks[2].End = TIME_000000
    /\ tracks[3].End = NoEnd

\* C2: the segmenter builds one track per accepted pair, in file order: the
\* track at position k has Number k, the Title and Start of pair k and
\* Total n, so 1 <= Number <= Total <= 999; n is the number of non-blank lines.
Thm_C2_Numbering ==
    /\ \A k \in 1..Len(tracks) :
          /\ tracks[k].Number = k
          /\ tracks[k].Total = Len(timecodes)
          /\ tracks[k].Title = timecodes[k][2]
          /\ tracks[k].Start = timecodes[k][1]
          /\ tracks[k].Artist = artist
          /\ tracks[k].Album = album
          /\ 1 <= tracks[k].Number
          /\ tracks[k].Number <= tracks[k].Total
          /\ tracks[k].Total <= 999
    /\ pc = "segment" => Len(tracks) = i
    /\ SegmentDone =>
          /\ Len(tracks) = Len(timecodes)
          /\ Len(tracks) = NonBlankCount(Len(fileLines))

\* two pairs, the later time first, have become tracks 1 and 2 of 2
Wit_C2_TwoOfTwo ==
    /\ pc = "segment"
    /\ i = Len(timecodes)
    /\ Len(tracks) = 2
    /\ tracks[1].Number = 1 /\ tracks[1].Title = TRACK_TWO
    /\ tracks[2].Number = 2 /\ tracks[2].Title = INTRO
    /\ tracks[2].Total = 2

\* C3: a run that ends without error has made, after creating the directory,
\* exactly the invocations cut(1), tag(1), ..., cut(n), tag(n): cut(k) starts
\* at the time of pair k, ends at the time of pair k+1 when k < n and has no
\* end option when k = n, and writes to the output path of track k; tag(k)
\* names the same path, track number k and track total n.
Thm_C3_InvocationOrder ==
    pc = "done" =>
        LET n == Len(timecodes)
        IN  /\ err = ""
            /\ Len(effects) = 2 * n + 1
            /\ effects[1].cmd = "mkdir"
            /\ printed = n
            /\ \A k \in 1..n :
                  LET c == effects[2 * k]
                      g == effects[2 * k + 1]
                  IN  /\ c.cmd = "ffmpeg" /\ c.outcome = "ok"
                      /\ ArgFollowedBy(c.args, <<"-ss">>, timecodes[k][1])
                      /\ k < n => ArgFollowedBy(c.args, <<"-to">>, timecodes[k + 1][1])
                      /\ k = n => ~HasArg(c.args, <<"-to">>)
                      /\ ArgFollowedBy(c.args, <<"-i">>, audioFile)
                      /\ Last(c.args) = outputFilename(tracks[k], audioFile)
                      /\ g.cmd = "eyed3" /\ g.outcome = "ok"
                      /\ Last(g.args) = Last(c.args)
                      /\ HasArg(g.args, <<"--track=">> \o Itoa(k))
                      /\ HasArg(g.args, <<"--track-total=">> \o Itoa(n))
                      /\ HasArg(g.args, <<"--title=\"">> \o timecodes[k][2] \o <<"\"">>)
                      /\ HasArg(g.args, <<"--artist=\"">> \o artist \o <<"\"">>)
                      /\ HasArg(g.args, <<"--album-artist=\"">> \o artist \o <<"\"">>)
                      /\ HasArg(g.args, <<"--album=\"">> \o album \o <<"\"">>)

\* the round trip of "00:00:00 Intro", "00:03:15 Track Two" with artist A,
\* album B and song.flac
Wit_C3_RoundTrip ==
    /\ pc = "done"
    /\ fileLines = << TIME_000000 \o <<" ">> \o INTRO,
                      TIME_000315 \o <<" ">> \o TRACK_TWO >>
    /\ audioFile = SONG_FLAC /\ artist = <<"A">> /\ album = <<"B">>
    /\ Len(effects) = 5
    /\ ArgFollowedBy(effects[2].args, <<"-to">>, TIME_000315)
    /\ Last(effects[2].args) =
          <<"A", "/", "B", "/", "0", "1", " ", "-", " ">> \o INTRO
          \o <<".", "f", "l", "a", "c">>
    /\ Last(effects[3].args) = Last(effects[2].args)
    /\ Last(effects[4].args) =
          <<"A", "/", "B", "/", "0", "2", " ", "-", " ">> \o TRACK_TWO
          \o <<".", "f", "l", "a", "c">>
    /\ Last(effects[5].args) = Last(effects[4].args)

\* C4: a failing invocation is the last one made: the run has then returned
\* an error and takes no further step.  Every step adds at most one
\* invocation and keeps the ones made before it, and the invocation at
\* position 2k is the cut of track k, the one at position 2k+1 its tag (stated
\* of the newest invocation in every state), so none is repeated or skipped.
Thm_C4_AbortOnFirstFailure ==
    /\ [](/\ \A k \in 1..(Len(effects) - 1) : effects[k].outcome = "ok"
          /\ (effects # <<>> /\ Last(effects).outcome # "ok")
                => (pc = "failed" /\ err # "")
          /\ (pc = "failed" /\ effects # <<>>) => Last(effects).outcome # "ok"
          /\ Len(effects) <= 2 * Len(tracks) + 1
          /\ Len(effects) >= 2 =>
                LET k == Len(effects)
                    e == effects[k]
                IN  /\ e.cmd = (IF k % 2 = 0 THEN "ffmpeg" ELSE "eyed3")
                    /\ Last(e.args) = outputFilename(tracks[k \div 2], audioFile)
                    /\ IF k % 2 = 0
                       THEN ArgFollowedBy(e.args, <<"-ss">>, tracks[k \div 2].Start)
                       ELSE HasArg(e.args, <<"--track=">> \o Itoa(k \div 2)))
    /\ [][/\ pc # "failed"
          /\ \/ effects' = effects
             \/ Len(effects') = Len(effects) + 1 /\ IsPrefix(effects, effects')]_vars

\* the cut of the first of two tracks fails
Wit_C4_FirstCutFails ==
    /\ pc = "failed"
    /\ Len(tracks) = 2
    /\ Len(effects) = 2
    /\ effects[2].cmd = "ffmpeg"
    /\ effects[2].outcome = "exitNonZero"

\* C5: a line that is not blank (here: that holds more than whitespace) is
\* classified by splitting it at its first run of spaces and tabs: no
\* separator is the invalid-format error, a token that is not HH:MM:SS is the
\* invalid-timecode error, and otherwise the pair (token, rest trimmed of
\* surrounding whitespace) is accepted.
Claim_C5_LineClassification ==
    (JustScanned /\ TrimWhitespace(fileLines[pos]) # <<>>) =>
        LET c == LineClass(fileLines[pos])
        IN  IF c.kind = "accepted"
            THEN /\ pc = "scan"
                 /\ timecodes # <<>>
                 /\ Last(timecodes) = c.pair
            ELSE pc = "failed" /\ err = c.kind

Claim_C7_PairInvariant ==
    \A k \in 1..Len(timecodes) :
        /\ IsHHMMSS(timecodes[k][1])
        /\ TrimWhitespace(timecodes[k][2]) # <<>>

\* C8: the output path of every track is Artist/Album/<file name>, a file
\* directly inside the directory run() creates, named by the padded number,
\* " - ", the title and the extension of the source file.
Claim_C8_OutputPath ==
    SegmentDone =>
        \A k \in 1..Len(tracks) :
            LET p == outputFilename(tracks[k], audioFile)
            IN  /\ p = artist \o <<"/">> \o album \o <<"/">> \o TrackFileName(tracks[k])
                /\ DirOf(p) = Join(<<artist, album>>)
                /\ BaseOf(p) = TrackFileName(tracks[k])

\* C9: every cut is a stream copy into the container format that the extension
\* of its destination path names.
Claim_C9_FormatFollowsExtension ==
    \A k \in 1..Len(effects) :
        (effects[k].cmd = "ffmpeg"
         /\ Ext(Last(effects[k].args)) \in {<<".", "m", "p", "3">>,
                                            <<".", "f", "l", "a", "c">>})
        => /\ ArgFollowedBy(effects[k].args, <<"-c">>, <<"copy">>)
           /\ ArgFollowedBy(effects[k].args, <<"-f">>,
                            FormatOfExt(Ext(Last(effects[k].args))))

\* C10: the directory is created at most once, as the first side effect, and
\* only after the whole file has been read and validated; a run that fails
\* with a validation error has had no side effect; a failed directory creation
\* is the only side effect of its run.
Thm_C10_NoEarlySideEffect ==
    /\ (pc = "failed" /\ err \in ValidationErrors) => effects = <<>>
    /\ pc \in {"statAudio", "statTimecodes", "open", "scan"} => effects = <<>>
    /\ effects # <<>> =>
          /\ effects[1].cmd = "mkdir"
          /\ \A k \in 2..Len(effects) :
                effects[k].cmd # "mkdir" /\ effects[1].outcome = "ok"
          /\ effects[1].outcome # "ok" => (pc = "failed" /\ Len(effects) = 1)
          /\ pos = Len(fileLines)
          /\ Len(timecodes) >= 1 /\ Len(timecodes) <= 999
          /\ Len(timecodes) = NonBlankCount(pos)
          /\ Len(tracks) = Len(timecodes)

\* a list of 1000 entries
Wit_C10_TooManyTracks ==
    /\ pc = "failed"
    /\ err = "too many tracks"
    /\ Len(timecodes) = 1000
    /\ tracks = <<>>
    /\ effects = <<>>

====
